---- MODULE Spec2Model ----
(***************************************************************************)
(* A model of the Kaleidoscope front end: the tokenizer (src/lexer.cpp),   *)
(* the recursive-descent / precedence-climbing parser (src/parser.cpp) and *)
(* the AST-to-IR code generation (src/ast.cpp).                            *)
(*                                                                         *)
(* Characters are one-character strings, EOF is the string "EOF".  A token *)
(* is either one of the five tags of enum Token or the character itself    *)
(* (gettok returns an unclassified character "as its ASCII value"; the     *)
(* enum's values are negative, so the two never collide).                  *)
(***************************************************************************)
EXTENDS Integers, Sequences, FiniteSets, TLC

VARIABLES
    input,            \* the characters standard input delivers (never changes)
    stdin,            \* the characters getchar() has not delivered yet
    last_char,        \* gettok's static last_char
    identifier_str,   \* lexer global, filled in if tok_identifier
    num_val,          \* lexer global, filled in if tok_number
    toks,             \* what each gettok() call of the lexer run returned
    cur_tok,          \* parser global: the lookahead token
    pc,               \* where parse() stands: "start", "loop" or "done"
    asts,             \* what the parse_* call of each handler so far returned
    stderr,           \* the diagnostics printed by the last operation
    g_module,         \* the backend module: its list of functions
    g_named_values,   \* the parameter-binding table
    builder,          \* g_builder's insertion point
    emitted,          \* the instructions the last codegen() call created
    call,             \* the AST node the last codegen() call was made on
    calls,            \* the number of codegen() calls made
    ret               \* what the last codegen() call returned

vars == <<input, stdin, last_char, identifier_str, num_val, toks, cur_tok, pc,
          asts, stderr, g_module, g_named_values, builder, emitted, call,
          calls, ret>>

lexer_vars == <<stdin, last_char, identifier_str, num_val>>
parser_vars == <<cur_tok, pc, asts>>
codegen_vars == <<g_module, g_named_values, builder, emitted, call, calls, ret>>

(***************************************************************************)
(* Characters and <cctype>.                                                *)
(***************************************************************************)
EOF == "EOF"

Letters ==
    {"a", "b", "c", "d", "e", "f", "g", "h", "i", "j", "k", "l", "m",
     "n", "o", "p", "q", "r", "s", "t", "u", "v", "w", "x", "y", "z"}

Digits == {"0", "1", "2", "3", "4", "5", "6", "7", "8", "9"}

DigitVal ==
    [d \in Digits |->
        CASE d = "0" -> 0 [] d = "1" -> 1 [] d = "2" -> 2 [] d = "3" -> 3
          [] d = "4" -> 4 [] d = "5" -> 5 [] d = "6" -> 6 [] d = "7" -> 7
          [] d = "8" -> 8 [] d = "9" -> 9]

isspace(c) == c \in {" ", "\t", "\n", "\r", "\f"}

isalpha(c) == c \in Letters

isdigit(c) == c \in Digits

isalnum(c) == isalpha(c) \/ isdigit(c)

(***************************************************************************)
(* enum Token.                                                             *)
(***************************************************************************)
tok_eof == "tok_eof"

tok_def == "tok_def"

tok_extern == "tok_extern"

tok_identifier == "tok_identifier"

tok_number == "tok_number"

TokenTags == {tok_eof, tok_def, tok_extern, tok_identifier, tok_number}

(***************************************************************************)
(* The lexer.  Its state is the record                                     *)
(*   [stdin, last_char, identifier_str, num_val]                           *)
(* (the parser adds cur_tok and stderr to it).                             *)
(***************************************************************************)

\* last_char = getchar();
NextChar(s) ==
    IF s.stdin = <<>>
    THEN [s EXCEPT !.last_char = EOF]
    ELSE [s EXCEPT !.last_char = Head(s.stdin), !.stdin = Tail(s.stdin)]

\* while (isspace(last_char)) last_char = getchar();
RECURSIVE SkipWhitespace(_)
SkipWhitespace(s) ==
    IF isspace(s.last_char) THEN SkipWhitespace(NextChar(s)) ELSE s

\* ReadIdentifier with the run continued by letters only (isalpha for isalnum).
RECURSIVE ReadIdentifierAlpha(_)
ReadIdentifierAlpha(s) ==
    LET s1 == NextChar(s)
    IN  IF isalpha(s1.last_char)
        THEN ReadIdentifierAlpha(
                 [s1 EXCEPT !.identifier_str = s1.identifier_str \o s1.last_char])
        ELSE s1

\* while (isalnum((last_char = getchar()))) identifier_str += last_char;
RECURSIVE ReadIdentifier(_)
ReadIdentifier(s) ==
    LET s1 == NextChar(s)
    IN  IF isalnum(s1.last_char)
        THEN ReadIdentifier(
                 [s1 EXCEPT !.identifier_str = s1.identifier_str \o s1.last_char])
        ELSE s1

\* do { num_str += last_char; last_char = getchar(); }
\* while (isdigit(last_char) || last_char == '.');
RECURSIVE ReadNumber(_, _)
ReadNumber(s, num_str) ==
    LET str1 == Append(num_str, s.last_char)
        s1 == NextChar(s)
    IN  IF isdigit(s1.last_char) \/ s1.last_char = "."
        THEN ReadNumber(s1, str1)
        ELSE [num_str |-> str1, s |-> s1]

RECURSIVE TakeDigits(_)
TakeDigits(str) ==
    IF str # <<>> /\ isdigit(Head(str))
    THEN <<Head(str)>> \o TakeDigits(Tail(str))
    ELSE <<>>

RECURSIVE DigitsToNat(_)
DigitsToNat(ds) ==
    IF ds = <<>> THEN 0
    ELSE 10 * DigitsToNat(SubSeq(ds, 1, Len(ds) - 1)) + DigitVal[ds[Len(ds)]]

RECURSIVE StripTrailingZeros(_)
StripTrailingZeros(ds) ==
    IF ds # <<>> /\ ds[Len(ds)] = "0"
    THEN StripTrailingZeros(SubSeq(ds, 1, Len(ds) - 1))
    ELSE ds

\* strtod(num_str.c_str(), nullptr) on a string of digits and dots: the value of
\* the longest prefix of the form digits [. digits]; 0 when that prefix holds no
\* digit (no conversion).  A double is written [int, frac]: its integer part and
\* the digits of its fraction without trailing zeros, which is exact for the
\* short decimal strings of the model.
strtod(num_str) ==
    LET ip == TakeDigits(num_str)
        rest == SubSeq(num_str, Len(ip) + 1, Len(num_str))
        fp == IF rest # <<>> /\ Head(rest) = "." THEN TakeDigits(Tail(rest)) ELSE <<>>
    IN  [int |-> DigitsToNat(ip), frac |-> StripTrailingZeros(fp)]

\* SkipComment with the carriage return forgotten as a line end.
RECURSIVE SkipCommentNewlineOnly(_)
SkipCommentNewlineOnly(s) ==
    LET s1 == NextChar(s)
    IN  IF s1.last_char # EOF /\ s1.last_char # "\n"
        THEN SkipCommentNewlineOnly(s1)
        ELSE s1

\* do { last_char = getchar(); }
\* while (last_char != EOF && last_char != '\n' && last_char != '\r');
RECURSIVE SkipComment(_)
SkipComment(s) ==
    LET s1 == NextChar(s)
    IN  IF s1.last_char # EOF /\ s1.last_char # "\n" /\ s1.last_char # "\r"
        THEN SkipComment(s1)
        ELSE s1

\* The reserved-word comparison of an identifier's text.
Classify(str) ==
    IF str = "def" THEN tok_def
    ELSE IF str = "extern" THEN tok_extern
    ELSE tok_identifier

\* int gettok(void): the token returned and the lexer state it leaves.
RECURSIVE gettok(_)
gettok(s0) ==
    LET s == SkipWhitespace(s0)
    IN  IF isalpha(s.last_char)
        THEN LET s1 == ReadIdentifier([s EXCEPT !.identifier_str = s.last_char])
             IN  [tok |-> Classify(s1.identifier_str), s |-> s1]
        ELSE IF isdigit(s.last_char) \/ s.last_char = "."
        THEN LET r == ReadNumber(s, <<>>)
             IN  [tok |-> tok_number,
                  s |-> [r.s EXCEPT !.num_val = strtod(r.num_str)]]
        ELSE IF s.last_char = "#"
        THEN LET s1 == SkipComment(s)
             IN  IF s1.last_char # EOF
                 THEN gettok(s1)
                 ELSE [tok |-> tok_eof, s |-> s1]
        ELSE IF s.last_char = EOF
        THEN [tok |-> tok_eof, s |-> s]
        ELSE [tok |-> s.last_char, s |-> NextChar(s)]

\* The lexer's globals before the first call, reading inp.
LexerStart(inp) ==
    [stdin |-> inp, last_char |-> " ", identifier_str |-> "",
     num_val |-> [int |-> 0, frac |-> <<>>]]

\* The lexer state held in the variables.
LexerNow ==
    [stdin |-> stdin, last_char |-> last_char,
     identifier_str |-> identifier_str, num_val |-> num_val]

\* What a caller of gettok() sees: the return value and the two globals.
Seen(r) ==
    [tok |-> r.tok, identifier_str |-> r.s.identifier_str, num_val |-> r.s.num_val]

(***************************************************************************)
(* The AST (src/ast.hpp).  A failed parse or codegen returns nullptr.      *)
(***************************************************************************)
nullptr == [kind |-> "null"]

NumberExprAST(val) == [kind |-> "Number", val |-> val]

VariableExprAST(name) == [kind |-> "Variable", name |-> name]

BinaryExprAST(op, lhs, rhs) == [kind |-> "Binary", op |-> op, lhs |-> lhs, rhs |-> rhs]

CallExprAST(callee, args) == [kind |-> "Call", callee |-> callee, args |-> args]

PrototypeAST(name, args) == [kind |-> "Prototype", name |-> name, args |-> args]

FunctionAST(proto, body) == [kind |-> "Function", proto |-> proto, body |-> body]

(***************************************************************************)
(* The parser.  Its state p is the lexer's record with cur_tok and stderr  *)
(* added; every parse function returns [v, s]: its result and the state it *)
(* leaves.                                                                 *)
(***************************************************************************)

\* The table parse() installs before it reads the first token.
binop_precedence == ("<" :> 10) @@ ("+" :> 20) @@ ("-" :> 30) @@ ("*" :> 40)

\* isascii(cur_tok): the enum's tags are negative, every character of the model
\* is an ASCII character.
isascii(tok) == tok \notin TokenTags

\* binop_precedence[cur_tok]: std::map's operator[] yields 0 for an absent key.
PrecedenceEntry(tok) ==
    IF tok \in DOMAIN binop_precedence THEN binop_precedence[tok] ELSE 0

get_tok_precedence(p) ==
    IF ~isascii(p.cur_tok) THEN -1
    ELSE LET tok_prec == PrecedenceEntry(p.cur_tok)
         IN  IF tok_prec <= 0 THEN -1 ELSE tok_prec

\* cur_tok = gettok();
SetCurTok(r) == [r.s EXCEPT !.cur_tok = r.tok]

get_next_token(p) == SetCurTok(gettok(p))

\* fprintf(stderr, ...)
fprintf(p, str) == [p EXCEPT !.stderr = Append(@, str)]

log_error(p, str) == [v |-> nullptr, s |-> fprintf(p, "Error: " \o str)]

log_error_p(p, str) == log_error(p, str)

RECURSIVE parse_expression(_)
RECURSIVE parse_primary(_)
RECURSIVE parse_identifier_expr(_)
RECURSIVE parse_paren_expr(_)
RECURSIVE parse_binop_rhs(_, _, _)
RECURSIVE CollectArgs(_, _)

parse_number_expr(p) ==
    [v |-> NumberExprAST(p.num_val), s |-> get_next_token(p)]

\* parse_identifier_expr, lines 100-123: after one argument arg was parsed.
\* [ok, args, s].
CollectArgsNext(arg, args) ==
    IF arg.v = nullptr
    THEN [ok |-> FALSE, args |-> args, s |-> arg.s]
    ELSE IF arg.s.cur_tok = ")"
    THEN [ok |-> TRUE, args |-> Append(args, arg.v), s |-> arg.s]
    ELSE IF arg.s.cur_tok # ","
    THEN [ok |-> FALSE, args |-> Append(args, arg.v),
          s |-> log_error(arg.s, "Expected ')' or ',' in arg list").s]
    ELSE CollectArgs(get_next_token(arg.s), Append(args, arg.v))

\* The for (;;) loop of parse_identifier_expr.
CollectArgs(p, args) == CollectArgsNext(parse_expression(p), args)

\* parse_identifier_expr, lines 127-131: the arguments c were collected.
CallClose(id_name, c) ==
    IF ~c.ok
    THEN [v |-> nullptr, s |-> c.s]
    ELSE [v |-> CallExprAST(id_name, c.args), s |-> get_next_token(c.s)]

\* parse_identifier_expr, lines 92-125: the opening parenthesis was consumed.
CallArgs(id_name, p2) ==
    CallClose(id_name,
              IF p2.cur_tok # ")"
              THEN CollectArgs(p2, <<>>)
              ELSE [ok |-> TRUE, args |-> <<>>, s |-> p2])

\* parse_identifier_expr, lines 84-91: the identifier was consumed.
IdentifierExprRest(id_name, p1) ==
    IF p1.cur_tok # "("
    THEN [v |-> VariableExprAST(id_name), s |-> p1]
    ELSE CallArgs(id_name, get_next_token(p1))

parse_identifier_expr(p) == IdentifierExprRest(p.identifier_str, get_next_token(p))

\* ParenClose that leaves the closing parenthesis unconsumed.
ParenCloseKeep(v) ==
    IF v.v = nullptr THEN v
    ELSE IF v.s.cur_tok # ")" THEN log_error(v.s, "expected ')'")
    ELSE v

\* parse_paren_expr, lines 258-273: the expression inside was parsed as v.
ParenClose(v) ==
    IF v.v = nullptr THEN v
    ELSE IF v.s.cur_tok # ")" THEN log_error(v.s, "expected ')'")
    ELSE [v |-> v.v, s |-> get_next_token(v.s)]

parse_paren_expr(p) == ParenClose(parse_expression(get_next_token(p)))

parse_primary(p) ==
    IF p.cur_tok = tok_identifier THEN parse_identifier_expr(p)
    ELSE IF p.cur_tok = tok_number THEN parse_number_expr(p)
    ELSE IF p.cur_tok = "(" THEN parse_paren_expr(p)
    ELSE log_error(p, "Unknown token when expecting an expression")

\* parse_expression, lines 166-171: the first primary was parsed as lhs.
ExpressionRest(lhs) ==
    IF lhs.v = nullptr THEN lhs ELSE parse_binop_rhs(0, lhs.v, lhs.s)

parse_expression(p) == ExpressionRest(parse_primary(p))

\* parse_binop_rhs, lines 221-226: merge lhs and rhs, then loop.
BinopMerge(expr_prec, lhs, binop, rhs) ==
    IF rhs.v = nullptr THEN rhs
    ELSE parse_binop_rhs(expr_prec, BinaryExprAST(binop, lhs, rhs.v), rhs.s)

\* BinopOperand that never lets the pending operator take rhs.
BinopOperandFlat(expr_prec, lhs, tok_prec, binop, rhs) ==
    IF rhs.v = nullptr THEN rhs
    ELSE BinopMerge(expr_prec, lhs, binop, rhs)

\* BinopOperand that also lets a pending operator of the same precedence take
\* rhs (<= for <, and the recursion entered at tok_prec).
BinopOperandRight(expr_prec, lhs, tok_prec, binop, rhs) ==
    IF rhs.v = nullptr THEN rhs
    ELSE BinopMerge(expr_prec, lhs, binop,
                    IF tok_prec <= get_tok_precedence(rhs.s)
                    THEN parse_binop_rhs(tok_prec, rhs.v, rhs.s)
                    ELSE rhs)

\* parse_binop_rhs, lines 203-219: the primary after the operator was parsed as
\* rhs; a pending operator that binds tighter takes it as its lhs.
BinopOperand(expr_prec, lhs, tok_prec, binop, rhs) ==
    IF rhs.v = nullptr THEN rhs
    ELSE BinopMerge(expr_prec, lhs, binop,
                    IF tok_prec < get_tok_precedence(rhs.s)
                    THEN parse_binop_rhs(tok_prec + 1, rhs.v, rhs.s)
                    ELSE rhs)

\* One turn of the for (;;) loop, followed by the rest of the loop.
parse_binop_rhs(expr_prec, lhs, p) ==
    IF get_tok_precedence(p) < expr_prec
    THEN [v |-> lhs, s |-> p]
    ELSE BinopOperand(expr_prec, lhs, get_tok_precedence(p), p.cur_tok,
                      parse_primary(get_next_token(p)))

RECURSIVE ReadArgNames(_, _)

\* parse_prototype, lines 303-306: one more token was read.
ReadArgNamesNext(p1, arg_names) ==
    IF p1.cur_tok = tok_identifier
    THEN ReadArgNames(p1, Append(arg_names, p1.identifier_str))
    ELSE [arg_names |-> arg_names, s |-> p1]

\* while (get_next_token() == tok_identifier) arg_names.push_back(identifier_str);
ReadArgNames(p, arg_names) == ReadArgNamesNext(get_next_token(p), arg_names)

\* parse_prototype, lines 308-318: the argument names a were read.
PrototypeClose(func_name, a) ==
    IF a.s.cur_tok # ")"
    THEN log_error_p(a.s, "Expected ')' in prototype")
    ELSE [v |-> PrototypeAST(func_name, a.arg_names), s |-> get_next_token(a.s)]

\* parse_prototype, lines 295-306: the function name was consumed.
PrototypeOpen(func_name, p1) ==
    IF p1.cur_tok # "("
    THEN log_error_p(p1, "Expected '(' in prototype")
    ELSE PrototypeClose(func_name, ReadArgNames(p1, <<>>))

parse_prototype(p) ==
    IF p.cur_tok # tok_identifier
    THEN log_error_p(p, "Expected function name in prototype")
    ELSE PrototypeOpen(p.identifier_str, get_next_token(p))

\* parse_definition, lines 338-344: the body was parsed.
DefinitionMake(proto, body) ==
    IF body.v = nullptr THEN body
    ELSE [v |-> FunctionAST(proto, body.v), s |-> body.s]

\* parse_definition, lines 331-338: the prototype was parsed.
DefinitionBody(proto) ==
    IF proto.v = nullptr THEN proto
    ELSE DefinitionMake(proto.v, parse_expression(proto.s))

parse_definition(p) == DefinitionBody(parse_prototype(get_next_token(p)))

parse_extern(p) == parse_prototype(get_next_token(p))

\* parse_top_level_expr, lines 368-378: the expression was parsed.
TopLevelMake(expr) ==
    IF expr.v = nullptr THEN expr
    ELSE [v |-> FunctionAST(PrototypeAST("", <<>>), expr.v), s |-> expr.s]

parse_top_level_expr(p) == TopLevelMake(parse_expression(p))

\* Handle that does not skip a token when the parse failed.
HandleNoSkip(r, report) ==
    IF r.v # nullptr
    THEN [v |-> r.v, s |-> fprintf(r.s, report)]
    ELSE [v |-> r.v, s |-> r.s]

\* The three handlers: the parse r, then the report or the one-token skip.
\* [v, s]: what the parse returned and the state the handler leaves.
Handle(r, report) ==
    IF r.v # nullptr
    THEN [v |-> r.v, s |-> fprintf(r.s, report)]
    ELSE [v |-> r.v, s |-> get_next_token(r.s)]

handle_definition(p) == Handle(parse_definition(p), "Parsed a function definition")

handle_extern(p) == Handle(parse_extern(p), "Parsed an extern")

handle_top_level_expression(p) ==
    Handle(parse_top_level_expr(p), "Parsed a top-level expr")

(***************************************************************************)
(* The backend, as far as the code generation uses it.  The module is its  *)
(* list of functions, each [id, name, args, blocks]: id stands for the     *)
(* llvm::Function's address, args are the arguments' names, blocks the     *)
(* basic blocks, each the list of its instructions.  A function without    *)
(* blocks is a declaration (empty()).  Every Create... call of the builder *)
(* appends one instruction at the insertion point.  Parameter names are    *)
(* taken to be distinct within one prototype.                              *)
(*                                                                         *)
(* The code generation's state c is [module, named_values, builder,        *)
(* stderr, emitted]; every codegen returns [v, c]: the value and the state *)
(* it leaves.  emitted lists the instructions created during the call.     *)
(***************************************************************************)
ConstantFP(val) == [kind |-> "ConstantFP", val |-> val]

Argument(f, i) == [kind |-> "Argument", func |-> f, idx |-> i]

InstructionValue(f, i) == [kind |-> "Instruction", func |-> f, idx |-> i]

FunctionPtr(f) == [kind |-> "FunctionPtr", func |-> f]

\* std::map<std::string, llvm::Value *> with no entry.
EmptyMap == [n \in {} |-> nullptr]

\* The position in the module of the function with address f; 0 when there is
\* none (the function was erased).
IndexOfId(module, f) ==
    IF \E i \in 1..Len(module) : module[i].id = f
    THEN CHOOSE i \in 1..Len(module) : module[i].id = f
    ELSE 0

\* g_module->getFunction(name): the position of the function of that name, 0 for
\* nullptr.  A function without a name is not in the module's symbol table.
getFunction(module, name) ==
    IF name # "" /\ \E i \in 1..Len(module) : module[i].name = name
    THEN CHOOSE i \in 1..Len(module) : module[i].name = name
    ELSE 0

\* The address of a new function: one no function of the module has.
NewId(module) ==
    CHOOSE f \in 1..(Len(module) + 1) :
        /\ \A i \in 1..Len(module) : module[i].id # f
        /\ \A g \in 1..(f - 1) : \E i \in 1..Len(module) : module[i].id = g

Suffixes == <<".1", ".2", ".3", ".4", ".5", ".6", ".7", ".8", ".9">>

\* The name a new function gets: the one asked for, or, when the module has a
\* function of that name already, that name with a suffix that makes it unique.
UniqueName(module, name) ==
    IF getFunction(module, name) = 0 THEN name
    ELSE name \o Suffixes[CHOOSE k \in 1..Len(Suffixes) :
                              /\ getFunction(module, name \o Suffixes[k]) = 0
                              /\ \A j \in 1..(k - 1) :
                                    getFunction(module, name \o Suffixes[j]) # 0]

log_error_v(c, str) ==
    [v |-> nullptr, c |-> [c EXCEPT !.stderr = Append(@, "Error: " \o str)]]

\* g_builder->Create...(operands): the instruction is appended to the block at
\* the insertion point; its value is returned.
Emit(c, opcode, operands) ==
    LET i == IndexOfId(c.module, c.builder.func)
        inst == [opcode |-> opcode, operands |-> operands]
    IN  [v |-> InstructionValue(c.builder.func,
                                Len(c.module[i].blocks[c.builder.block]) + 1),
         c |-> [c EXCEPT !.module[i].blocks[c.builder.block] = Append(@, inst),
                         !.emitted = Append(@, inst)]]

RECURSIVE codegen(_, _)
RECURSIVE CodegenArgs(_, _, _, _)

NumberCodegen(e, c) == [v |-> ConstantFP(e.val), c |-> c]

\* VariableCodegen that takes an unknown variable for the constant 0.
VariableCodegenDefault(e, c) ==
    IF e.name \in DOMAIN c.named_values /\ c.named_values[e.name] # nullptr
    THEN [v |-> c.named_values[e.name], c |-> c]
    ELSE [v |-> ConstantFP([int |-> 0, frac |-> <<>>]), c |-> c]

\* VariableExprAST::codegen.  g_named_values[name] enters the name with a null
\* value when the map does not hold it.
VariableCodegen(e, c) ==
    LET c1 == IF e.name \in DOMAIN c.named_values
              THEN c
              ELSE [c EXCEPT !.named_values = @ @@ (e.name :> nullptr)]
        v == c1.named_values[e.name]
    IN  IF v = nullptr
        THEN [v |-> v, c |-> log_error_v(c1, "Unknown variable name").c]
        ELSE [v |-> v, c |-> c1]

\* The cmptmp compare, then the booltmp conversion of its result.
EmitLess(cmp) == Emit(cmp.c, "uitofp", <<cmp.v>>)

\* BinaryExprAST::codegen, lines 91-126: both operands were generated.
BinaryEmit(e, l, r) ==
    IF l = nullptr \/ r.v = nullptr THEN [v |-> nullptr, c |-> r.c]
    ELSE IF e.op = "+" THEN Emit(r.c, "fadd", <<l, r.v>>)
    ELSE IF e.op = "-" THEN Emit(r.c, "fsub", <<l, r.v>>)
    ELSE IF e.op = "*" THEN Emit(r.c, "fmul", <<l, r.v>>)
    ELSE IF e.op = "<" THEN EmitLess(Emit(r.c, "fcmp ult", <<l, r.v>>))
    ELSE log_error_v(r.c, "Invalid binary operator")

\* BinaryRhs that returns as soon as lhs has failed.
BinaryRhsShortCircuit(e, l) ==
    IF l.v = nullptr THEN l ELSE BinaryEmit(e, l.v, codegen(e.rhs, l.c))

\* BinaryExprAST::codegen, line 89: lhs was generated as l, rhs is generated next.
BinaryRhs(e, l) == BinaryEmit(e, l.v, codegen(e.rhs, l.c))

BinaryCodegen(e, c) == BinaryRhs(e, codegen(e.lhs, c))

\* CallExprAST::codegen, lines 154-158: argument i was generated as a.
CodegenArgsNext(args, i, args_v, a) ==
    IF a.v = nullptr
    THEN [ok |-> FALSE, args_v |-> Append(args_v, a.v), c |-> a.c]
    ELSE CodegenArgs(args, i + 1, Append(args_v, a.v), a.c)

\* The for loop of CallExprAST::codegen, from argument i on: [ok, args_v, c].
CodegenArgs(args, i, args_v, c) ==
    IF i > Len(args)
    THEN [ok |-> TRUE, args_v |-> args_v, c |-> c]
    ELSE CodegenArgsNext(args, i, args_v, codegen(args[i], c))

\* CallExprAST::codegen, lines 152-162: the arguments were generated.
CallEmit(callee_f, r) ==
    IF ~r.ok THEN [v |-> nullptr, c |-> r.c]
    ELSE Emit(r.c, "call", <<FunctionPtr(callee_f)>> \o r.args_v)

\* CallCodegen with the arguments generated before their number is checked.
CallCodegenLateCheck(e, c) ==
    LET i == getFunction(c.module, e.callee)
    IN  IF i = 0
        THEN log_error_v(c, "Unknown function referenced")
        ELSE IF Len(c.module[i].args) # Len(e.args)
        THEN log_error_v(CodegenArgs(e.args, 1, <<>>, c).c,
                         "Incorrect number of args passed")
        ELSE CallEmit(c.module[i].id, CodegenArgs(e.args, 1, <<>>, c))

\* CallExprAST::codegen.
CallCodegen(e, c) ==
    LET i == getFunction(c.module, e.callee)
    IN  IF i = 0
        THEN log_error_v(c, "Unknown function referenced")
        ELSE IF Len(c.module[i].args) # Len(e.args)
        THEN log_error_v(c, "Incorrect number of args passed")
        ELSE CallEmit(c.module[i].id, CodegenArgs(e.args, 1, <<>>, c))

\* ExprAST::codegen: the virtual call.
codegen(e, c) ==
    IF e.kind = "Number" THEN NumberCodegen(e, c)
    ELSE IF e.kind = "Variable" THEN VariableCodegen(e, c)
    ELSE IF e.kind = "Binary" THEN BinaryCodegen(e, c)
    ELSE CallCodegen(e, c)

\* PrototypeAST::codegen: llvm::Function::Create and the arguments' names.
PrototypeCodegen(proto, c) ==
    [v |-> FunctionPtr(NewId(c.module)),
     c |-> [c EXCEPT !.module =
                Append(@, [id |-> NewId(c.module),
                           name |-> UniqueName(c.module, proto.name),
                           args |-> proto.args,
                           blocks |-> <<>>])]]

\* the_func->eraseFromParent()
EraseFromParent(c, f) ==
    LET i == IndexOfId(c.module, f)
    IN  [c EXCEPT !.module = SubSeq(@, 1, i - 1) \o SubSeq(@, i + 1, Len(@))]

\* FunctionFinish that leaves the function in the module when its body failed.
FunctionFinishKeep(f, b) ==
    IF b.v = nullptr
    THEN [v |-> nullptr, c |-> b.c]
    ELSE [v |-> FunctionPtr(f), c |-> Emit(b.c, "ret", <<b.v>>).c]

\* FunctionAST::codegen, lines 244-258: the body was generated as b.
FunctionFinish(f, b) ==
    IF b.v = nullptr
    THEN [v |-> nullptr, c |-> EraseFromParent(b.c, f)]
    ELSE [v |-> FunctionPtr(f), c |-> Emit(b.c, "ret", <<b.v>>).c]

\* FunctionAST::codegen, lines 225-240: the entry block is created, the builder
\* set to it, and the binding table reset to the_func's arguments.
OpenFunction(c, f) ==
    LET i == IndexOfId(c.module, f)
        args == c.module[i].args
    IN  [c EXCEPT !.module[i].blocks = <<<<>>>>,
                  !.builder = [func |-> f, block |-> 1],
                  !.named_values =
                      [n \in {args[k] : k \in 1..Len(args)} |->
                          Argument(f, CHOOSE k \in 1..Len(args) : args[k] = n)]]

\* FunctionDefine without the test that the function has no body yet.
FunctionDefineUnchecked(F, r) ==
    FunctionFinish(r.v.func, codegen(F.body, OpenFunction(r.c, r.v.func)))

\* FunctionAST::codegen, lines 219-243: the_func was resolved as r.v.
FunctionDefine(F, r) ==
    IF r.c.module[IndexOfId(r.c.module, r.v.func)].blocks # <<>>
    THEN log_error_v(r.c, "Function cannot be redefined")
    ELSE FunctionFinish(r.v.func, codegen(F.body, OpenFunction(r.c, r.v.func)))

\* FunctionAST::codegen, lines 204-211: the function of the prototype's name, or
\* a new one declared from the prototype.
ResolveFunction(F, c) ==
    IF getFunction(c.module, F.proto.name) # 0
    THEN [v |-> FunctionPtr(c.module[getFunction(c.module, F.proto.name)].id), c |-> c]
    ELSE PrototypeCodegen(F.proto, c)

\* FunctionAST::codegen.
FunctionCodegen(F, c) == FunctionDefine(F, ResolveFunction(F, c))

(***************************************************************************)
(* Bounded inputs: concatenations of pieces.                               *)
(***************************************************************************)
RECURSIVE Concats(_, _)
Concats(pieces, n) ==
    IF n = 0 THEN {<<>>}
    ELSE LET shorter == Concats(pieces, n - 1)
         IN  shorter \cup {p \o t : p \in pieces, t \in shorter}

MaxLexPieces == 4

LexPieces ==
    {<<"d", "e", "f">>, <<"e", "x", "t", "e", "r", "n">>, <<"x">>, <<"1">>,
     <<" ">>, <<"#">>, <<"\n">>, <<"\r">>, <<"+">>, <<".">>}

LexInputs == Concats(LexPieces, MaxLexPieces)

(***************************************************************************)
(* The parts of the state a specification does not exercise.               *)
(***************************************************************************)
ParserIdle ==
    /\ cur_tok = "0"
    /\ pc = "start"
    /\ asts = <<>>

CodegenIdle ==
    /\ g_module = <<>>
    /\ g_named_values = EmptyMap
    /\ builder = nullptr
    /\ emitted = <<>>
    /\ call = nullptr
    /\ calls = 0
    /\ ret = nullptr

(***************************************************************************)
(* The lexer on its own: gettok() called again and again on one input.     *)
(***************************************************************************)
InitLexer ==
    /\ input \in LexInputs
    /\ stdin = input
    /\ last_char = " "
    /\ identifier_str = ""
    /\ num_val = [int |-> 0, frac |-> <<>>]
    /\ toks = <<>>
    /\ stderr = <<>>
    /\ ParserIdle
    /\ CodegenIdle

\* Two end-of-input tokens in a row end the run of the model: every further
\* call would repeat the last one.
LexerRunOver ==
    /\ Len(toks) >= 2
    /\ toks[Len(toks)].tok = tok_eof
    /\ toks[Len(toks) - 1].tok = tok_eof

GetTok ==
    /\ ~LexerRunOver
    /\ LET r == gettok(LexerNow)
       IN  /\ stdin' = r.s.stdin
           /\ last_char' = r.s.last_char
           /\ identifier_str' = r.s.identifier_str
           /\ num_val' = r.s.num_val
           /\ toks' = Append(toks, Seen(r))
    /\ UNCHANGED <<input, stderr, parser_vars, codegen_vars>>

NextLexer == GetTok

SpecLexer == InitLexer /\ [][NextLexer]_vars

(***************************************************************************)
(* parse(): the driver loop, one action per turn of the loop.              *)
(***************************************************************************)
Ops == DOMAIN binop_precedence

\* The k-th primary of a generated operator chain: numbers and variables by turns.
PrimaryChars == <<"1", "b", "3", "c", "5", "d", "7", "e", "9">>

MaxOps == 4

MaxInnerOps == 2

MaxParsePieces == 3

\* The operator chains with exactly k operators: p1 op p2 op ... p(k+1).
RECURSIVE ChainsWith(_)
ChainsWith(k) ==
    IF k = 0 THEN {<<PrimaryChars[1]>>}
    ELSE {c \o <<op, PrimaryChars[k + 1]>> : c \in ChainsWith(k - 1), op \in Ops}

ChainsUpTo(n) == UNION {ChainsWith(k) : k \in 0..n}

\* A parenthesized chain, alone or as an operand: [p op] ( chain ) [op p].
ParenPres == {<<>>} \cup {<<"7", op>> : op \in Ops}

ParenPosts == {<<>>} \cup {<<op, "9">> : op \in Ops}

ParenInners ==
    ChainsUpTo(MaxInnerOps)
        \cup {<<"(">> \o c \o <<")">> : c \in ChainsUpTo(1)}
        \cup {<<"(">> \o c \o <<")", op, "5">> : c \in ChainsUpTo(1), op \in Ops}

ParenInputs ==
    {pre \o <<"(">> \o c \o <<")">> \o post :
        pre \in ParenPres, c \in ParenInners, post \in ParenPosts}

ParsePieces ==
    {<<"d", "e", "f", " ">>, <<"e", "x", "t", "e", "r", "n", " ">>,
     <<"f", "(", "a", ")">>, <<"(", "a", ")">>, <<"f", "(">>, <<")">>,
     <<"1">>, <<"+">>, <<";">>, <<",">>, <<"a", " ">>}

Ex_Precedence == <<"1", "+", "2", "*", "3">>

Ex_LeftAssoc == <<"1", "-", "2", "-", "3">>

Ex_Parens == <<"(", "1", "+", "2", ")", "*", "3">>

Ex_DefParens == <<"d", "e", "f", " ", "f", "o", "o", "(", "a", ")", " ", "(", "a", ")">>

ExampleInputs == {Ex_Precedence, Ex_LeftAssoc, Ex_Parens, Ex_DefParens}

ParserInputs ==
    ChainsUpTo(MaxOps) \cup ParenInputs \cup ExampleInputs
        \cup Concats(ParsePieces, MaxParsePieces)

InitParser ==
    /\ input \in ParserInputs
    /\ stdin = input
    /\ last_char = " "
    /\ identifier_str = ""
    /\ num_val = [int |-> 0, frac |-> <<>>]
    /\ toks = <<>>
    /\ stderr = <<>>
    /\ cur_tok = "0"
    /\ pc = "start"
    /\ asts = <<>>
    /\ CodegenIdle

\* The parser's globals before parse() is called on the input inp.
ParserStart(inp) ==
    [stdin |-> inp, last_char |-> " ", identifier_str |-> "",
     num_val |-> [int |-> 0, frac |-> <<>>], cur_tok |-> "0", stderr |-> <<>>]

\* The parser state held in the variables, with nothing printed yet.
ParserNow ==
    [stdin |-> stdin, last_char |-> last_char, identifier_str |-> identifier_str,
     num_val |-> num_val, cur_tok |-> cur_tok, stderr |-> <<>>]

\* The variables take the parser state p.
Becomes(p) ==
    /\ stdin' = p.stdin
    /\ last_char' = p.last_char
    /\ identifier_str' = p.identifier_str
    /\ num_val' = p.num_val
    /\ cur_tok' = p.cur_tok
    /\ stderr' = p.stderr

\* A handler returned r: its state is kept, its parse result recorded.
Handled(r) == Becomes(r.s) /\ asts' = Append(asts, r.v)

\* parse() up to the loop: the table is installed, the first token primed.
PrimeFirstToken(p) == get_next_token(fprintf(p, "ready> "))

ParseStart ==
    /\ pc = "start"
    /\ Becomes(PrimeFirstToken(ParserNow))
    /\ pc' = "loop"
    /\ UNCHANGED <<input, toks, asts, codegen_vars>>

\* case tok_eof: return;
LoopEof ==
    /\ pc = "loop"
    /\ cur_tok = tok_eof
    /\ Becomes(fprintf(ParserNow, "ready> "))
    /\ pc' = "done"
    /\ UNCHANGED <<input, toks, asts, codegen_vars>>

\* case ';': get_next_token();
LoopSemicolon ==
    /\ pc = "loop"
    /\ cur_tok = ";"
    /\ Becomes(get_next_token(fprintf(ParserNow, "ready> ")))
    /\ UNCHANGED <<input, toks, pc, asts, codegen_vars>>

\* The turn of the loop at a token that is neither end-of-input nor ';'.
Dispatch(p) ==
    IF p.cur_tok = tok_def THEN handle_definition(p)
    ELSE IF p.cur_tok = tok_extern THEN handle_extern(p)
    ELSE handle_top_level_expression(p)

\* case tok_def: handle_definition();
LoopDefinition ==
    /\ pc = "loop"
    /\ cur_tok = tok_def
    /\ Handled(handle_definition(fprintf(ParserNow, "ready> ")))
    /\ UNCHANGED <<input, toks, pc, codegen_vars>>

\* case tok_extern: handle_extern();
LoopExtern ==
    /\ pc = "loop"
    /\ cur_tok = tok_extern
    /\ Handled(handle_extern(fprintf(ParserNow, "ready> ")))
    /\ UNCHANGED <<input, toks, pc, codegen_vars>>

\* default: handle_top_level_expression();
LoopTopLevel ==
    /\ pc = "loop"
    /\ cur_tok \notin {tok_eof, ";", tok_def, tok_extern}
    /\ Handled(handle_top_level_expression(fprintf(ParserNow, "ready> ")))
    /\ UNCHANGED <<input, toks, pc, codegen_vars>>

NextParser ==
    \/ ParseStart
    \/ LoopEof
    \/ LoopSemicolon
    \/ LoopDefinition
    \/ LoopExtern
    \/ LoopTopLevel

SpecParser == InitParser /\ [][NextParser]_vars

(***************************************************************************)
(* The code generation on its own: codegen() called on one top-level AST   *)
(* after another, as a driver does with what the handlers parsed.          *)
(***************************************************************************)
MaxCalls == 3

One == NumberExprAST([int |-> 1, frac |-> <<>>])

Sum == BinaryExprAST("+", VariableExprAST("a"), One)

Atoms ==
    {One, VariableExprAST("a"), VariableExprAST("b"), VariableExprAST("z")}

Binaries ==
    {BinaryExprAST("+", l, r) :
        l \in {VariableExprAST("a"), VariableExprAST("z")}, r \in {One, Sum}}
    \cup {BinaryExprAST("<", VariableExprAST("a"), VariableExprAST("b")),
          BinaryExprAST("-", One, VariableExprAST("b")),
          BinaryExprAST("*", VariableExprAST("b"), VariableExprAST("a")),
          BinaryExprAST("/", VariableExprAST("a"), One)}

Calls ==
    {CallExprAST(f, args) :
        f \in {"foo", "bar"}, args \in {<<One>>, <<Sum, VariableExprAST("z")>>}}

Bodies == Atoms \cup Binaries \cup Calls

Definitions ==
    {FunctionAST(PrototypeAST("foo", args), body) :
        args \in {<<"a">>, <<"a", "b">>}, body \in Bodies}

TopLevels == {FunctionAST(PrototypeAST("", <<>>), body) : body \in Bodies}

Externs ==
    {PrototypeAST(name, args) :
        name \in {"foo", "bar"}, args \in {<<"b">>, <<"a", "b">>}}

LexerIdle ==
    /\ input = ""
    /\ stdin = ""
    /\ last_char = " "
    /\ identifier_str = ""
    /\ num_val = [int |-> 0, frac |-> <<>>]
    /\ toks = <<>>

InitCodegen ==
    /\ LexerIdle
    /\ ParserIdle
    /\ stderr = <<>>
    /\ CodegenIdle

CodegenNow ==
    [module |-> g_module, named_values |-> g_named_values, builder |-> builder,
     stderr |-> stderr, emitted |-> <<>>]

\* The state a codegen() call on the node ast leaves, and what it returned.
Returns(ast, r) ==
    /\ g_module' = r.c.module
    /\ g_named_values' = r.c.named_values
    /\ builder' = r.c.builder
    /\ stderr' = r.c.stderr
    /\ emitted' = r.c.emitted
    /\ ret' = r.v
    /\ call' = ast
    /\ calls' = calls + 1

CodegenDefinition ==
    /\ calls < MaxCalls
    /\ \E F \in Definitions : Returns(F, FunctionCodegen(F, CodegenNow))
    /\ UNCHANGED <<input, toks, lexer_vars, parser_vars>>

CodegenTopLevel ==
    /\ calls < MaxCalls
    /\ \E F \in TopLevels : Returns(F, FunctionCodegen(F, CodegenNow))
    /\ UNCHANGED <<input, toks, lexer_vars, parser_vars>>

CodegenExtern ==
    /\ calls < MaxCalls
    /\ \E P \in Externs : Returns(P, PrototypeCodegen(P, CodegenNow))
    /\ UNCHANGED <<input, toks, lexer_vars, parser_vars>>

NextCodegen ==
    \/ CodegenDefinition
    \/ CodegenTopLevel
    \/ CodegenExtern

SpecCodegen == InitCodegen /\ [][NextCodegen]_vars

(***************************************************************************)
(* Properties of the parser.                                               *)
(***************************************************************************)

\* The result of the first handler parse() runs on the input inp (an input
\* whose first token is neither end-of-input nor ';').
FirstForm(inp) == Dispatch(PrimeFirstToken(ParserStart(inp))).v

\* The result of parse_expression on the input inp, primed with its first token.
ExpressionOf(inp) == parse_expression(get_next_token(ParserStart(inp)))

\* An unparenthesized operator chain: one-character primaries (a digit or a
\* letter) separated by operators of the table.
IsChain(inp) ==
    /\ Len(inp) % 2 = 1
    /\ \A i \in 1..Len(inp) :
          IF i % 2 = 1 THEN isalnum(inp[i]) ELSE inp[i] \in Ops

\* The AST of a one-character primary.
LeafOf(c) ==
    IF isdigit(c)
    THEN NumberExprAST([int |-> DigitVal[c], frac |-> <<>>])
    ELSE VariableExprAST(c)

RECURSIVE Leaves(_)
Leaves(t) ==
    IF t.kind = "Binary" THEN Leaves(t.lhs) \o Leaves(t.rhs) ELSE <<t>>

RECURSIVE OpsOf(_)
OpsOf(t) ==
    IF t.kind = "Binary" THEN OpsOf(t.lhs) \o <<t.op>> \o OpsOf(t.rhs) ELSE <<>>

\* Every BinaryOp right child has strictly higher precedence than its parent.
RECURSIVE RightTighter(_)
RightTighter(t) ==
    IF t.kind # "Binary" THEN TRUE
    ELSE /\ t.rhs.kind = "Binary" =>
               binop_precedence[t.rhs.op] > binop_precedence[t.op]
         /\ RightTighter(t.lhs)
         /\ RightTighter(t.rhs)

\* No BinaryOp left child has lower precedence than its parent.
RECURSIVE LeftNotLooser(_)
LeftNotLooser(t) ==
    IF t.kind # "Binary" THEN TRUE
    ELSE /\ t.lhs.kind = "Binary" =>
               binop_precedence[t.lhs.op] >= binop_precedence[t.op]
         /\ LeftNotLooser(t.lhs)
         /\ LeftNotLooser(t.rhs)

Num(n) == NumberExprAST([int |-> n, frac |-> <<>>])

TopLevel(body) == FunctionAST(PrototypeAST("", <<>>), body)

\* C1: an unparenthesized operator chain parses, as a top-level expression, to
\* the tree whose operands and operators appear in input order, in which a
\* BinaryOp right child always has strictly higher precedence than its parent
\* and a BinaryOp left child never lower precedence (the higher-precedence
\* neighbour binds tighter); 1+2*3 yields BinaryOp(+, 1, BinaryOp(*, 2, 3)).
C1_PrecedenceClimbing ==
    (Len(asts) >= 1 /\ IsChain(input)) =>
        /\ asts[1].kind = "Function"
        /\ asts[1].proto = PrototypeAST("", <<>>)
        /\ Leaves(asts[1].body) =
               [i \in 1..((Len(input) + 1) \div 2) |-> LeafOf(input[2 * i - 1])]
        /\ OpsOf(asts[1].body) =
               [i \in 1..((Len(input) - 1) \div 2) |-> input[2 * i]]
        /\ RightTighter(asts[1].body)
        /\ LeftNotLooser(asts[1].body)
        /\ input = Ex_Precedence =>
               asts[1].body =
                   BinaryExprAST("+", Num(1), BinaryExprAST("*", Num(2), Num(3)))

\* A chain in which a tighter operator follows a looser one and a looser one
\* follows that has been parsed.
C1_Witness ==
    /\ pc = "done"
    /\ IsChain(input)
    /\ Len(asts) = 1
    /\ asts[1].kind = "Function"
    /\ \E i \in 1..Len(input) :
          /\ i + 4 <= Len(input)
          /\ input[i] \in Ops /\ input[i + 2] \in Ops /\ input[i + 4] \in Ops
          /\ binop_precedence[input[i]] < binop_precedence[input[i + 2]]
          /\ binop_precedence[input[i + 4]] < binop_precedence[input[i + 2]]

\* The left-nested tree of a chain.
RECURSIVE LeftNested(_)
LeftNested(inp) ==
    IF Len(inp) = 1 THEN LeafOf(inp[1])
    ELSE BinaryExprAST(inp[Len(inp) - 1],
                       LeftNested(SubSeq(inp, 1, Len(inp) - 2)),
                       LeafOf(inp[Len(inp)]))

SameOperator(inp) ==
    \A i, j \in 1..Len(inp) : (i % 2 = 0 /\ j % 2 = 0) => inp[i] = inp[j]

\* C2: a chain a op b op c ... of one table operator parses to the left-nested
\* tree BinaryOp(op, BinaryOp(op, a, b), c); 1-2-3 yields
\* BinaryOp(-, BinaryOp(-, 1, 2), 3).
C2_LeftAssociative ==
    (Len(asts) >= 1 /\ IsChain(input) /\ SameOperator(input)) =>
        /\ asts[1] = TopLevel(LeftNested(input))
        /\ input = Ex_LeftAssoc =>
               asts[1].body =
                   BinaryExprAST("-", BinaryExprAST("-", Num(1), Num(2)), Num(3))

\* A chain of three or more operands of one operator has been parsed.
C2_Witness ==
    /\ pc = "done"
    /\ IsChain(input)
    /\ SameOperator(input)
    /\ Len(input) >= 5
    /\ Len(asts) = 1
    /\ asts[1].kind = "Function"

\* The position of the ')' that closes the '(' at position i; 0 when none does.
RECURSIVE MatchFrom(_, _, _)
MatchFrom(inp, j, depth) ==
    IF j > Len(inp) THEN 0
    ELSE IF inp[j] = "(" THEN MatchFrom(inp, j + 1, depth + 1)
    ELSE IF inp[j] = ")"
    THEN IF depth = 1 THEN j ELSE MatchFrom(inp, j + 1, depth - 1)
    ELSE MatchFrom(inp, j + 1, depth)

MatchOf(inp, i) == MatchFrom(inp, i + 1, 1)

\* The identifier that stands for a parenthesized group.
Hole == <<"h", "o", "l", "e">>

\* The tree t with the expression g put for every VariableRef(hole).
RECURSIVE Fill(_, _)
Fill(t, g) ==
    IF t.kind = "Variable" THEN IF t.name = "hole" THEN g ELSE t
    ELSE IF t.kind = "Binary"
    THEN BinaryExprAST(t.op, Fill(t.lhs, g), Fill(t.rhs, g))
    ELSE IF t.kind = "Call"
    THEN CallExprAST(t.callee, [k \in 1..Len(t.args) |-> Fill(t.args[k], g)])
    ELSE IF t.kind = "Function"
    THEN FunctionAST(t.proto, Fill(t.body, g))
    ELSE t

\* The texts before a parenthesized group of the inputs: nothing, an operand and
\* an operator, or a definition's prototype.
GroupPres ==
    ParenPres \cup {<<"d", "e", "f", " ", "f", "o", "o", "(", "a", ")", " ">>,
                    <<"d", "e", "f", " ", "f", "(", "a", ")">>}

StartsWith(inp, pre) ==
    Len(pre) <= Len(inp) /\ SubSeq(inp, 1, Len(pre)) = pre

\* The group that opens after pre is closed at position j, what it encloses is
\* one whole expression, and an operator or nothing follows it.
IsGroup(inp, pre, j) ==
    /\ j > 0
    /\ j = Len(inp) \/ inp[j + 1] \in Ops
    /\ LET e == ExpressionOf(SubSeq(inp, Len(pre) + 2, j - 1))
       IN  e.v # nullptr /\ e.s.cur_tok = tok_eof

\* The form parsed with hole put for the group, and the group's tree put back.
Regrouped(inp, pre, j) ==
    Fill(FirstForm(pre \o Hole \o SubSeq(inp, j + 1, Len(inp))),
         ExpressionOf(SubSeq(inp, Len(pre) + 2, j - 1)).v)

\* C3: parentheses group and add no node: where a primary is expected, '(' e ')'
\* parses to exactly the tree of e, and that tree is one operand of the
\* operators around it: the form has the tree it has with an identifier in the
\* place of the group, with the tree of e put for that identifier.  So (1+2)*3
\* yields BinaryOp(*, BinaryOp(+, 1, 2), 3) and the body of def foo(a) (a) is
\* VariableRef(a).
C3_ParenthesesGroup ==
    Len(asts) >= 1 =>
        /\ \A pre \in GroupPres :
              (/\ StartsWith(input, pre \o <<"(">>)
               /\ IsGroup(input, pre, MatchOf(input, Len(pre) + 1)))
                  => asts[1] = Regrouped(input, pre, MatchOf(input, Len(pre) + 1))
        /\ input = Ex_Parens =>
               asts[1].body =
                   BinaryExprAST("*", BinaryExprAST("+", Num(1), Num(2)), Num(3))
        /\ input = Ex_DefParens =>
               asts[1] = FunctionAST(PrototypeAST("foo", <<"a">>), VariableExprAST("a"))

\* A parenthesized lower-precedence operation has been parsed as the left
\* operand of a higher-precedence operator.
C3_Witness ==
    /\ pc = "done"
    /\ Len(asts) = 1
    /\ StartsWith(input, <<"(">>)
    /\ IsGroup(input, <<>>, MatchOf(input, 1))
    /\ MatchOf(input, 1) < Len(input)
    /\ asts[1].kind = "Function"
    /\ asts[1].body.kind = "Binary"
    /\ asts[1].body.lhs.kind = "Binary"
    /\ binop_precedence[asts[1].body.lhs.op] < binop_precedence[asts[1].body.op]

(***************************************************************************)
(* Properties of the lexer.                                                *)
(***************************************************************************)

\* The input with every comment deleted: the characters from a '#' up to, and
\* not including, the next line end; up to the end when no line end follows.
RECURSIVE StripComments(_, _)
StripComments(str, in_comment) ==
    IF str = <<>> THEN <<>>
    ELSE LET c == Head(str)
         IN  IF in_comment
             THEN IF c \in {"\n", "\r"}
                  THEN <<c>> \o StripComments(Tail(str), FALSE)
                  ELSE StripComments(Tail(str), TRUE)
             ELSE IF c = "#"
                  THEN StripComments(Tail(str), TRUE)
                  ELSE <<c>> \o StripComments(Tail(str), FALSE)

\* What the first n calls of gettok() return, from lexer state s.
RECURSIVE TokenRun(_, _)
TokenRun(s, n) ==
    IF n = 0 THEN <<>>
    ELSE LET r == gettok(s) IN <<Seen(r)>> \o TokenRun(r.s, n - 1)

\* C8: comments are invisible: the tokens gettok() has returned so far (tag,
\* identifier text, number value) are the tokens the same number of calls
\* return on the input with its comments deleted; after a comment that runs to
\* the end of the input the token is end-of-input.
C8_CommentsInvisible ==
    toks = TokenRun(LexerStart(StripComments(input, FALSE)), Len(toks))

HasComment(str) == \E i \in 1..Len(str) : str[i] = "#"

\* A run over an input with a comment between two tokens, read to its end.
C8_Witness ==
    /\ \E i \in 2..(Len(input) - 2) :
          /\ input[i] = "#"
          /\ \E j \in (i + 1)..(Len(input) - 1) : input[j] \in {"\n", "\r"}
    /\ Len(toks) = 3
    /\ toks[1].tok # tok_eof
    /\ toks[2].tok # tok_eof
    /\ toks[3].tok = tok_eof

\* The pushed-back character and the characters not yet read.
Unread(s) == IF s.last_char = EOF THEN <<>> ELSE <<s.last_char>> \o s.stdin

RECURSIVE DropSpace(_)
DropSpace(str) ==
    IF str # <<>> /\ isspace(Head(str)) THEN DropSpace(Tail(str)) ELSE str

RECURSIVE AlnumRun(_)
AlnumRun(str) ==
    IF str # <<>> /\ isalnum(Head(str))
    THEN <<Head(str)>> \o AlnumRun(Tail(str))
    ELSE <<>>

RECURSIVE Text(_)
Text(str) == IF str = <<>> THEN "" ELSE Head(str) \o Text(Tail(str))

\* A gettok() call made when the next character that is not white space is a
\* letter: the token it returns, given the maximal alphanumeric run there.
RunToken(w) ==
    LET run == AlnumRun(w)
        t == toks'[Len(toks')]
    IN  /\ t.tok = tok_def <=> Text(run) = "def"
        /\ t.tok = tok_extern <=> Text(run) = "extern"
        /\ t.tok \in {tok_def, tok_extern, tok_identifier}
        /\ t.identifier_str = Text(run)
        /\ Unread(LexerNow') = SubSeq(w, Len(run) + 1, Len(w))

\* C9: gettok() takes the maximal run of alphanumeric characters that starts at
\* a letter as one token; the token is the def or extern keyword exactly when
\* the whole run is "def" or "extern", and otherwise an identifier carrying the
\* whole run; the characters after the run stay unread.
C9_MaximalRun ==
    [][LET w == DropSpace(Unread(LexerNow))
       IN  (w # <<>> /\ isalpha(Head(w))) => RunToken(w)]_vars

\* An identifier that only starts with a reserved word has been returned.
C9_Witness ==
    /\ toks # <<>>
    /\ toks[Len(toks)].tok = tok_identifier
    /\ toks[Len(toks)].identifier_str \in {"defx", "def1", "externx", "extern1"}

(***************************************************************************)
(* Properties of the code generation.  They are stated over a step of      *)
(* SpecCodegen: the unprimed variables are the state before the call, the   *)
(* primed ones the state it leaves, call' the node it was made on.          *)
(***************************************************************************)

SetOf(seq) == {seq[k] : k \in 1..Len(seq)}

LastError == IF stderr = <<>> THEN "" ELSE stderr[Len(stderr)]

\* The function of that name has a body.
HasBody(module, name) ==
    /\ getFunction(module, name) # 0
    /\ module[getFunction(module, name)].blocks # <<>>

\* The names of the arguments of the function a FunctionDef F is generated
\* into: the function already declared under F's name, else the one declared
\* from F's own prototype.
TheFuncArgs(module, F) ==
    IF getFunction(module, F.proto.name) # 0
    THEN module[getFunction(module, F.proto.name)].args
    ELSE F.proto.args

\* The step generates the body of a FunctionDef, and the body is of that kind.
GeneratesBody(kind) ==
    /\ call'.kind = "Function"
    /\ ~HasBody(g_module, call'.proto.name)
    /\ call'.body.kind = kind

\* C4: FunctionDef codegen for a name whose function already has a body fails
\* with the redefinition error and changes nothing: the module (the function,
\* its body, its blocks), the binding table and the builder are as before, and
\* no instruction is created.
C4_RedefinitionChangesNothing ==
    [][(call'.kind = "Function" /\ HasBody(g_module, call'.proto.name))
        => /\ ret' = nullptr
           /\ stderr' = Append(stderr, "Error: Function cannot be redefined")
           /\ g_module' = g_module
           /\ g_named_values' = g_named_values
           /\ builder' = builder
           /\ emitted' = <<>>]_vars

\* A second definition of foo, with other parameters than the first, was
\* rejected; foo has the body and the bindings of the first.
C4_Witness ==
    /\ call.kind = "Function"
    /\ call.proto.name = "foo"
    /\ ret = nullptr
    /\ LastError = "Error: Function cannot be redefined"
    /\ HasBody(g_module, "foo")
    /\ g_module[getFunction(g_module, "foo")].args # call.proto.args
    /\ DOMAIN g_named_values = SetOf(g_module[getFunction(g_module, "foo")].args)

\* The last call was a FunctionDef codegen whose body failed.
BodyFailed ==
    /\ call.kind = "Function"
    /\ ret = nullptr
    /\ LastError # "Error: Function cannot be redefined"

\* C5: when the body of a FunctionDef fails, FunctionDef codegen returns with
\* no function of that name in the module; a call to the name generated next
\* (in another function) fails as an unknown function, and a definition of the
\* name generated next is not rejected as a redefinition.
C5_FailedBodyRemovesFunction ==
    [][/\ BodyFailed' => getFunction(g_module', call'.proto.name) = 0
       /\ (BodyFailed /\ call.proto.name # "" /\ call'.kind = "Function")
          => /\ ( /\ call'.proto.name # call.proto.name
                  /\ call'.body.kind = "Call"
                  /\ call'.body.callee = call.proto.name )
                => /\ ret' = nullptr
                   /\ stderr' = Append(stderr, "Error: Unknown function referenced")
             /\ call'.proto.name = call.proto.name
                => LastError' # "Error: Function cannot be redefined"]_vars

\* A definition of foo failed in its body after instructions were created in
\* it, and the module has no foo.
C5_Witness ==
    /\ BodyFailed
    /\ call.proto.name = "foo"
    /\ emitted # <<>>
    /\ getFunction(g_module, "foo") = 0

\* The function a call to callee finds while the body of F is generated: F's
\* own function under F's name, else what the module holds.
FoundArgs(module, F, callee) ==
    IF callee = F.proto.name THEN TheFuncArgs(module, F)
    ELSE module[getFunction(module, callee)].args

Found(module, F, callee) ==
    callee # "" /\ (callee = F.proto.name \/ getFunction(module, callee) # 0)

\* C6: a Call whose number of arguments differs from the number of parameters
\* of the function found under the callee's name fails with the arity error
\* and nothing else: no value, no instruction (the call's or an argument's), no
\* diagnostic of an argument, no lookup of an argument in the binding table.
C6_ArityMismatch ==
    [][( /\ GeneratesBody("Call")
         /\ Found(g_module, call', call'.body.callee)
         /\ Len(FoundArgs(g_module, call', call'.body.callee))
                # Len(call'.body.args) )
        => /\ ret' = nullptr
           /\ stderr' = Append(stderr, "Error: Incorrect number of args passed")
           /\ emitted' = <<>>
           /\ DOMAIN g_named_values' = SetOf(TheFuncArgs(g_module, call'))]_vars

\* A call with two arguments, the first an addition and the second an unbound
\* variable, failed with the arity error.
C6_Witness ==
    /\ call.kind = "Function"
    /\ call.body.kind = "Call"
    /\ Len(call.body.args) = 2
    /\ call.body.args[1].kind = "Binary"
    /\ LastError = "Error: Incorrect number of args passed"
    /\ ret = nullptr

\* C7: VariableRef(name) fails with the unknown-variable error exactly when
\* name is not an argument name of the function being generated; otherwise its
\* value is that argument, which the function then returns.
C7_UnknownVariable ==
    [][GeneratesBody("Variable")
        => IF call'.body.name \in SetOf(TheFuncArgs(g_module, call'))
           THEN /\ ret' # nullptr
                /\ stderr' = stderr
                /\ LET f == g_module'[IndexOfId(g_module', ret'.func)]
                   IN  /\ Len(f.blocks[1]) = 1
                       /\ f.blocks[1][1].opcode = "ret"
                       /\ f.blocks[1][1].operands[1].kind = "Argument"
                       /\ f.blocks[1][1].operands[1].func = f.id
                       /\ f.args[f.blocks[1][1].operands[1].idx] = call'.body.name
           ELSE /\ ret' = nullptr
                /\ stderr' = Append(stderr, "Error: Unknown variable name")]_vars

\* VariableRef(z) in a function with the parameters (a, b) failed.
C7_Witness ==
    /\ call.kind = "Function"
    /\ call.proto.args = <<"a", "b">>
    /\ call.body = VariableExprAST("z")
    /\ ret = nullptr
    /\ LastError = "Error: Unknown variable name"
    /\ calls = 1

\* The step generates a BinaryOp as the body of a FunctionDef, and its lhs is a
\* reference to a name that is not bound: codegen of lhs fails.
LhsFails ==
    /\ GeneratesBody("Binary")
    /\ call'.body.lhs.kind = "Variable"
    /\ call'.body.lhs.name \notin SetOf(TheFuncArgs(g_module, call'))

\* The state in which the body of the FunctionDef F of the step is generated.
Opened(F) ==
    OpenFunction(ResolveFunction(F, CodegenNow).c,
                 ResolveFunction(F, CodegenNow).v.func)

\* The state the failed lookup of lhs leaves.
AfterLhs(F) ==
    [Opened(F) EXCEPT !.named_values = @ @@ (F.body.lhs.name :> nullptr),
                      !.stderr = Append(@, "Error: Unknown variable name")]

\* C10, as stated: when codegen of lhs fails, BinaryOp codegen returns failure
\* and rhs is not code-generated: no instruction of it, no diagnostic of it, no
\* lookup of it in the binding table.
C10_ShortCircuit ==
    [][LhsFails
        => /\ ret' = nullptr
           /\ emitted' = <<>>
           /\ stderr' = Append(stderr, "Error: Unknown variable name")
           /\ g_named_values' = AfterLhs(call').named_values]_vars

\* C10, amended: when codegen of lhs fails, BinaryOp codegen still generates
\* rhs (its instructions, its diagnostics, its lookups), then returns failure
\* with no instruction for the operator.
C10_BothOperandsGenerated ==
    [][LhsFails
        => /\ ret' = nullptr
           /\ emitted' = codegen(call'.body.rhs, AfterLhs(call')).c.emitted
           /\ stderr' = codegen(call'.body.rhs, AfterLhs(call')).c.stderr
           /\ g_named_values'
                = codegen(call'.body.rhs, AfterLhs(call')).c.named_values]_vars

\* z + (a + 1) in a function with the parameter a: lhs failed, the addition of
\* rhs was created all the same.
C10_Witness ==
    /\ call.kind = "Function"
    /\ call.body.kind = "Binary"
    /\ call.body.lhs = VariableExprAST("z")
    /\ call.body.rhs = Sum
    /\ "a" \in SetOf(call.proto.args)
    /\ calls = 1
    /\ ret = nullptr
    /\ emitted = <<[opcode |-> "fadd",
                    operands |-> <<Argument(1, 1), ConstantFP(One.val)>>]>>

\* The step is a FunctionDef codegen that gets as far as generating the body.
GeneratesSomeBody ==
    /\ call'.kind = "Function"
    /\ ~HasBody(g_module, call'.proto.name)

\* C11: a FunctionDef whose codegen fails in the body removes nothing but a
\* function the attempt itself created: every function that was in the module
\* before the attempt, a declaration of the same name included, is in it
\* afterwards as it was.
C11_OnlyOwnFunctionRemoved ==
    [][BodyFailed'
        => \A i \in 1..Len(g_module) :
              \E j \in 1..Len(g_module') : g_module'[j] = g_module[i]]_vars

\* C12: when FunctionDef codegen generates the body, the names bound in the
\* binding table are the parameter names of the definition's own prototype,
\* whether the function was declared now or found from an earlier extern; so a
\* body that is a reference to one of the definition's own parameters succeeds.
C12_BoundToOwnPrototype ==
    [][GeneratesSomeBody
        => /\ DOMAIN Opened(call').named_values = SetOf(call'.proto.args)
           /\ ( /\ call'.body.kind = "Variable"
                /\ call'.body.name \in SetOf(call'.proto.args) )
              => ret' # nullptr]_vars

\* C13: from the reset at the start of a function's codegen on, the binding
\* table is what the reset made it: generating the body adds no entry, removes
\* none and rebinds none, a failed lookup of an unknown name included.
C13_BodyLeavesBindings ==
    [][GeneratesSomeBody
        => g_named_values' = Opened(call').named_values]_vars

(***************************************************************************)
(* Termination of the driver loop.  parse() is one sequential loop over a  *)
(* finite input; it returns when a quantity that every turn decreases has  *)
(* run out.                                                                *)
(***************************************************************************)

\* What the loop has yet to get through: the characters not yet read, the one
\* held in last_char, and the lookahead token unless it is end-of-input.
Pending ==
    Len(Unread(LexerNow)) + (IF cur_tok = tok_eof THEN 0 ELSE 1)

\* C14: parse() terminates on every finite input: a turn of the loop at
\* end-of-input returns; every other turn advances the lookahead, a turn whose
\* handler fails included, so the turns taken and what is pending never exceed
\* what the input held at the start; and once the end of input is reached
\* gettok() returns end-of-input on every call and changes nothing.
C14_ParseTerminates ==
    /\ [][(pc = "loop" /\ cur_tok = tok_eof) => pc' = "done"]_vars
    /\ [][(pc = "loop" /\ pc' = "loop") => Pending' < Pending]_vars
    /\ [](Len(asts) + Pending <= Len(input) + 2)
    /\ [](last_char = EOF
            => /\ gettok(LexerNow).tok = tok_eof
               /\ gettok(LexerNow).s = LexerNow)

\* parse() returned on an input that starts with a stray ')': the first
\* handler failed without consuming anything, and the loop went on.
C14_Witness ==
    /\ pc = "done"
    /\ input # <<>>
    /\ input[1] = ")"
    /\ Len(asts) >= 2
    /\ asts[1] = nullptr
    /\ cur_tok = tok_eof

====
